---- MODULE Spec2Model ----
(***************************************************************************)
(* Model of AISummaryBatchService (src/ai_summary_batch_service.py): the   *)
(* batch job that selects posts without a summary, asks the provider for   *)
(* one summary per post with a single cooldown-and-retry on quota errors,  *)
(* commits each summary on its own and records the run in batch_logs.      *)
(*                                                                         *)
(* Python strings are sequences of one-character strings, Python None is   *)
(* the value None below.  Provider error texts are sequences of words, so  *)
(* that the substring tests of _gemini_summarize are contiguous-word tests.*)
(***************************************************************************)
EXTENDS Integers, Sequences, FiniteSets, TLC

\* ------------------------------------------------------------------ bounds
NumPosts == 2
MaxRuns == 2
MaxExternalWrites == 1
MaxErrorWords == 4

\* --------------------------------------------------------------- constants
DefaultRetryDelay == 60
CooldownSeconds == 120
ErrorMessageLimit == 1000

None == <<"None">>
NoDelay == -1

PostIds == 1..NumPosts

\* ------------------------------------------------------------ input values
Whitespace == {" ", "\t", "\n"}

ContentValues == {None, <<>>, <<" ">>, <<"\t">>, <<"a">>}

ProviderTexts == {<<"a">>, <<" ", "b", "\n">>}

ProviderErrors ==
    { <<"429">>,
      <<"Quota", "exceeded", "Retry", "in", "5s">>,
      <<"Rate", "Limit", "retry", "in", "..s">>,
      <<"500", "internal">> }

\* Inputs of _gemini_summarize taken on its own: every error text of up to
\* MaxErrorWords words, and response texts including empty and blank ones.
ErrorWords == {"429", "Quota", "quota", "Rate", "rate", "Limit", "limit",
               "Retry", "in", "5s", "..s", "500"}

SummarizeTexts == ProviderTexts \cup {<<>>, <<" ", "\n">>}

SummarizeInputs ==
    { [kind |-> "text", text |-> t] : t \in SummarizeTexts }
        \cup { [kind |-> "error", text |-> e] :
                 e \in UNION { [1..k -> ErrorWords] : k \in 1..MaxErrorWords } }

ProviderOutcomes ==
    { [kind |-> "text", text |-> t] : t \in ProviderTexts }
        \cup { [kind |-> "error", text |-> e] : e \in ProviderErrors }

StorageErrors == { [text |-> "db down", len |-> 7], [text |-> "db trace", len |-> 1500] }

ExternalSummary == <<"x">>

\* ------------------------------------------------------------ pure helpers
RECURSIVE LStrip(_, _)
LStrip(s, chars) ==
    IF s # <<>> /\ Head(s) \in chars THEN LStrip(Tail(s), chars) ELSE s

RECURSIVE RStrip(_, _)
RStrip(s, chars) ==
    IF s # <<>> /\ s[Len(s)] \in chars THEN RStrip(SubSeq(s, 1, Len(s) - 1), chars) ELSE s

\* str.strip(): removes every leading and trailing whitespace character.
PyStrip(s) == RStrip(LStrip(s, Whitespace), Whitespace)

\* SQL TRIM(content): removes leading and trailing spaces only.
SqlTrim(s) == RStrip(LStrip(s, {" "}), {" "})

Lower(w) ==
    CASE w = "Quota" -> "quota"
      [] w = "Rate" -> "rate"
      [] w = "Limit" -> "limit"
      [] w = "Retry" -> "retry"
      [] OTHER -> w

LowerAll(e) == [i \in 1..Len(e) |-> Lower(e[i])]

Contains(e, sub) ==
    \E i \in 1..(Len(e) - Len(sub) + 1) : SubSeq(e, i, i + Len(sub) - 1) = sub

\* str(e)[:n] on an error text of known length.
Truncate(msg, n) == [text |-> msg.text, len |-> IF msg.len > n THEN n ELSE msg.len]

NoMessage == [text |-> "None", len |-> 0]

\* ------------------------------------------------------ _gemini_summarize
\* The quota test as it would be without .lower().
IsQuotaErrorCaseSensitive(e) ==
    \/ Contains(e, <<"429">>)
    \/ Contains(e, <<"quota">>)
    \/ Contains(e, <<"rate", "limit">>)

\* "429" in error_str or "quota" in error_str.lower() or "rate limit" in ...
IsQuotaError(e) ==
    \/ Contains(e, <<"429">>)
    \/ Contains(LowerAll(e), <<"quota">>)
    \/ Contains(LowerAll(e), <<"rate", "limit">>)

\* Words the pattern ([\d.]+)s matches, with the value float() gives for the
\* group; -1 stands for float() raising ValueError.
SecondsWords == {"5s", "..s"}
FloatOf(w) == IF w = "5s" THEN 5 ELSE -1

\* re.search(r'retry in ([\d.]+)s', error_str.lower()): positions of a match.
RetryInMatches(e) ==
    LET l == LowerAll(e)
    IN  { i \in 1..(Len(l) - 2) :
            l[i] = "retry" /\ l[i + 1] = "in" /\ l[i + 2] \in SecondsWords }

ParseRetryDelay(e) ==
    LET l == LowerAll(e)
        m == RetryInMatches(e)
    IN  IF Contains(l, <<"retry", "in">>) /\ m # {}
        THEN LET first == CHOOSE i \in m : \A j \in m : i <= j
                 v == FloatOf(l[first + 2])
             IN  IF v >= 0 THEN v + 1 ELSE DefaultRetryDelay
        ELSE DefaultRetryDelay

\* _gemini_summarize as it would be without .strip() on response.text.
gemini_summarize_unstripped(o) ==
    IF o.kind = "text"
    THEN [summary |-> o.text, retry_delay |-> NoDelay]
    ELSE IF IsQuotaError(o.text)
         THEN [summary |-> None, retry_delay |-> ParseRetryDelay(o.text)]
         ELSE [summary |-> None, retry_delay |-> NoDelay]

gemini_summarize(o) ==
    IF o.kind = "text"
    THEN [summary |-> PyStrip(o.text), retry_delay |-> NoDelay]
    ELSE IF IsQuotaError(o.text)
         THEN [summary |-> None, retry_delay |-> ParseRetryDelay(o.text)]
         ELSE [summary |-> None, retry_delay |-> NoDelay]

\* ------------------------------------------------------------ run helpers
\* WHERE summary IS NULL AND content IS NOT NULL AND content != ''
\*   AND TRIM(content) != ''
\* The selection as it would be without "summary IS NULL".
SqlEligibleAnySummary(p) ==
    /\ p.content # None
    /\ p.content # <<>>
    /\ SqlTrim(p.content) # <<>>

SqlEligible(p) ==
    /\ p.summary = None
    /\ p.content # None
    /\ p.content # <<>>
    /\ SqlTrim(p.content) # <<>>

\* ORDER BY post_id ASC
RECURSIVE SelectFrom(_, _)
SelectFrom(db, i) ==
    IF i > NumPosts THEN <<>>
    ELSE (IF SqlEligible(db[i])
          THEN <<[post_id |-> i, content |-> db[i].content]>>
          ELSE <<>>) \o SelectFrom(db, i + 1)

SelectCandidates(db) == SelectFrom(db, 1)

\* not content or not content.strip()
ContentEmpty(content) == content = None \/ content = <<>>

ContentBlank(content) ==
    content = None \/ content = <<>> \/ PyStrip(content) = <<>>

\* existing_summary and existing_summary[0] is not None
SummaryExists(existing) == existing # None

\* The retry test as it would be without "and retry_delay is not None".
AnyFailure(s, delay) == s = None

\* summary is None and retry_delay is not None
QuotaFailure(s, delay) == s = None /\ delay # NoDelay

ApplyUpdate(db, w) ==
    [r \in PostIds |-> IF r \in w.ids THEN [db[r] EXCEPT !.summary = w.summary] ELSE db[r]]

\* The row as it would be with total_count as the affected count.
LogRowAffectedTotal(status, sc, fc, tc, msg) ==
    [job_type |-> "AI_SUMMARY",
     log_level |-> IF status = "FAILED" THEN "ERROR" ELSE "INFO",
     status |-> status,
     affected_count |-> tc,
     detail |-> [success_count |-> sc, fail_count |-> fc, total_count |-> tc],
     error_message |-> msg]

\* The row _log_batch inserts into batch_logs.
LogRow(status, sc, fc, tc, msg) ==
    [job_type |-> "AI_SUMMARY",
     log_level |-> IF status = "FAILED" THEN "ERROR" ELSE "INFO",
     status |-> status,
     affected_count |-> sc,
     detail |-> [success_count |-> sc, fail_count |-> fc, total_count |-> tc],
     error_message |-> msg]

\* ------------------------------------------------------------------ state
VARIABLES
    posts,                   \* posts table: post_id -> [content, summary]
    batch_logs,              \* rows the current run has inserted into batch_logs
                             \* (the job never reads or changes earlier rows)
    pending,                 \* uncommitted UPDATE on the work connection
    conn,                    \* work connection: "none", "open", "closed"
    pc,                      \* position of run()
    runs,                    \* number of run() invocations started
    rows, total_count, success_count, fail_count, idx,
    summary, retry_delay, retry_delay_after_retry,
    exc,                     \* exception in flight: <<>> or <<error>>
    obs,                     \* what the current run has done, per post
    hist                     \* what all runs have done: posts with an UPDATE
                             \* issued / committed by the job, whether a post got
                             \* a second UPDATE, whether the last run summarized
                             \* all its candidates, number of external writes

vars == <<posts, batch_logs, pending, conn, pc, runs, rows, total_count,
          success_count, fail_count, idx, summary, retry_delay,
          retry_delay_after_retry, exc, obs, hist>>

locals == <<rows, total_count, success_count, fail_count, idx, summary,
            retry_delay, retry_delay_after_retry>>

NoOutcome == [kind |-> "none", text |-> <<>>]

\* lastCalled, lastUpdated: the highest loop index that reached the provider
\* or issued an UPDATE; calls, slept, outcome, text: the provider calls and
\* seconds of cooldown of candidate lastCalled, the provider's last answer to
\* it and what _gemini_summarize made of it (both cleared when the loop moves
\* on); committed: the posts whose UPDATE this run has committed; the rest
\* describes the whole run.
FreshObs ==
    [calls |-> 0, slept |-> 0, outcome |-> NoOutcome, text |-> None,
     lastCalled |-> 0, lastUpdated |-> 0,
     nullAtSelect |-> {}, dbFailed |-> FALSE, extWrite |-> FALSE,
     provFailed |-> FALSE, committed |-> {},
     logCalls |-> 0, logRows |-> 0, closes |-> 0,
     raised |-> FALSE, exit |-> "running"]

Init ==
    /\ posts \in [PostIds -> [content : ContentValues, summary : {None}]]
    /\ batch_logs = <<>>
    /\ pending = <<>>
    /\ conn = "none"
    /\ pc = "idle"
    /\ runs = 0
    /\ rows = <<>>
    /\ total_count = 0
    /\ success_count = 0
    /\ fail_count = 0
    /\ idx = 0
    /\ summary = None
    /\ retry_delay = NoDelay
    /\ retry_delay_after_retry = NoDelay
    /\ exc = <<>>
    /\ obs = FreshObs
    /\ hist = [written |-> {}, issued |-> {}, reissued |-> FALSE,
               clean |-> FALSE, external |-> 0]

cur == rows[idx].post_id

\* for ... in enumerate(rows, 1): the next iteration, or the end of the loop.
\* summary and the two delays are reassigned before they are read again, so
\* they are cleared here.
Advance(o) == [o EXCEPT !.outcome = NoOutcome, !.text = None]

NextRecord ==
    /\ idx' = idx + 1
    /\ pc' = IF idx + 1 > Len(rows) THEN "log_success" ELSE "check"
    /\ summary' = None
    /\ retry_delay' = NoDelay
    /\ retry_delay_after_retry' = NoDelay

\* ---------------------------------------------------------------- run()
StartRun ==
    /\ pc \in {"idle", "done"}
    /\ runs < MaxRuns
    /\ runs' = runs + 1
    /\ pc' = "connect"
    /\ conn' = "none"
    /\ rows' = <<>>
    /\ total_count' = 0
    /\ success_count' = 0
    /\ fail_count' = 0
    /\ idx' = 0
    /\ summary' = None
    /\ retry_delay' = NoDelay
    /\ retry_delay_after_retry' = NoDelay
    /\ obs' = FreshObs
    /\ batch_logs' = <<>>
    /\ UNCHANGED <<posts, pending, exc, hist>>

\* conn = self._get_conn(); cur = conn.cursor()  (outside the try)
Connect ==
    /\ pc = "connect"
    /\ \/ /\ conn' = "open"
          /\ pc' = "select"
          /\ UNCHANGED <<obs, hist>>
       \/ /\ pc' = "done"
          /\ obs' = [obs EXCEPT !.raised = TRUE, !.exit = "connect_error"]
          /\ hist' = [hist EXCEPT !.clean = FALSE]
          /\ UNCHANGED conn
    /\ UNCHANGED <<posts, batch_logs, pending, runs, locals, exc>>

\* cur.execute(SELECT ...); rows = cur.fetchall(); total_count = len(rows)
Select ==
    /\ pc = "select"
    /\ \/ /\ rows' = SelectCandidates(posts)
          /\ total_count' = Len(rows')
          /\ obs' = [obs EXCEPT
                       !.nullAtSelect = {r \in PostIds : posts[r].summary = None},
                       !.exit = IF Len(rows') = 0 THEN "empty" ELSE @]
          /\ IF Len(rows') = 0
             THEN pc' = "finally" /\ UNCHANGED idx
             ELSE pc' = "check" /\ idx' = 1
          /\ UNCHANGED exc
       \/ /\ \E e \in StorageErrors : exc' = <<e>>
          /\ pc' = "except_outer"
          /\ UNCHANGED <<rows, total_count, idx, obs>>
    /\ UNCHANGED <<posts, batch_logs, pending, conn, runs, success_count,
                   fail_count, summary, retry_delay, retry_delay_after_retry, hist>>

\* the two double checks at the top of the loop body
CheckRecord ==
    /\ pc = "check"
    /\ IF ContentBlank(rows[idx].content)
       THEN NextRecord /\ UNCHANGED <<exc, obs>>
       ELSE \/ /\ IF SummaryExists(posts[cur].summary)
                  THEN NextRecord
                  ELSE pc' = "call1" /\ UNCHANGED <<idx, summary, retry_delay,
                                                     retry_delay_after_retry>>
               /\ UNCHANGED <<exc, obs>>
            \/ /\ \E e \in StorageErrors : exc' = <<e>>
               /\ pc' = "except_rec"
               /\ obs' = [obs EXCEPT !.dbFailed = TRUE]
               /\ UNCHANGED <<idx, summary, retry_delay, retry_delay_after_retry>>
    /\ UNCHANGED <<posts, batch_logs, pending, conn, runs, rows, total_count,
                   success_count, fail_count, hist>>

\* summary, retry_delay = self._gemini_summarize(content, title)
FirstCall ==
    /\ pc = "call1"
    /\ \E o \in ProviderOutcomes :
         LET res == gemini_summarize(o)
         IN  /\ summary' = res.summary
             /\ retry_delay' = res.retry_delay
             /\ pc' = IF QuotaFailure(res.summary, res.retry_delay)
                      THEN "sleep" ELSE "apply"
             /\ obs' = [obs EXCEPT !.calls = 1, !.slept = 0, !.lastCalled = idx,
                                   !.outcome = o, !.text = res.summary,
                                   !.provFailed = @ \/ res.summary = None]
    /\ UNCHANGED <<posts, batch_logs, pending, conn, runs, rows, total_count,
                   success_count, fail_count, idx, retry_delay_after_retry,
                   exc, hist>>

\* time.sleep(120)
Cooldown ==
    /\ pc = "sleep"
    /\ pc' = "call2"
    /\ obs' = [obs EXCEPT !.slept = @ + CooldownSeconds]
    /\ UNCHANGED <<posts, batch_logs, pending, conn, runs, locals, exc, hist>>

\* The retry as it would be if a second quota failure slept and retried again.
RetryCallAgain ==
    /\ pc = "call2"
    /\ \E o \in ProviderOutcomes :
         LET res == gemini_summarize(o)
             again == QuotaFailure(res.summary, res.retry_delay)
         IN  /\ summary' = res.summary
             /\ retry_delay_after_retry' = res.retry_delay
             /\ pc' = IF again THEN "sleep" ELSE "apply"
             /\ obs' = [obs EXCEPT !.calls = @ + 1, !.lastCalled = idx,
                                   !.outcome = o, !.text = res.summary,
                                   !.provFailed = @ \/ res.summary = None]
    /\ UNCHANGED <<posts, batch_logs, pending, conn, runs, rows, total_count,
                   success_count, fail_count, idx, retry_delay, exc, hist>>

\* summary, retry_delay_after_retry = self._gemini_summarize(content, title)
RetryCall ==
    /\ pc = "call2"
    /\ \E o \in ProviderOutcomes :
         LET res == gemini_summarize(o)
             quit == QuotaFailure(res.summary, res.retry_delay)
         IN  /\ summary' = res.summary
             /\ retry_delay_after_retry' = res.retry_delay
             /\ pc' = IF quit THEN "finally" ELSE "apply"
             /\ obs' = [obs EXCEPT !.calls = @ + 1, !.lastCalled = idx,
                                   !.outcome = o, !.text = res.summary,
                                   !.provFailed = @ \/ res.summary = None,
                                   !.exit = IF quit THEN "quota" ELSE @]
    /\ UNCHANGED <<posts, batch_logs, pending, conn, runs, rows, total_count,
                   success_count, fail_count, idx, retry_delay, exc, hist>>

\* if summary is None: fail_count += 1; continue
CountFailure ==
    /\ pc = "apply"
    /\ summary = None
    /\ fail_count' = fail_count + 1
    /\ obs' = Advance(obs)
    /\ NextRecord
    /\ UNCHANGED <<posts, batch_logs, pending, conn, runs, rows, total_count,
                   success_count, exc, hist>>

\* The UPDATE as it would be if keyed by the first fetched row's post_id.
UpdateFirstCandidate(post_id) == {rows[1].post_id}

\* UPDATE posts SET summary = %s WHERE post_id = %s: the rows it touches.
UpdateRows(post_id) == {post_id}

\* cur.execute("UPDATE posts SET summary = %s WHERE post_id = %s", ...)
Update ==
    /\ pc = "apply"
    /\ summary # None
    /\ \/ /\ pending' = <<[ids |-> UpdateRows(cur), summary |-> summary]>>
          /\ pc' = "commit"
          /\ obs' = [obs EXCEPT !.lastUpdated = idx]
          /\ hist' = [hist EXCEPT !.issued = @ \cup pending'[1].ids,
                                     !.reissued = @ \/ pending'[1].ids \cap hist.issued # {}]
          /\ UNCHANGED exc
       \/ /\ \E e \in StorageErrors : exc' = <<e>>
          /\ pc' = "except_rec"
          /\ obs' = [obs EXCEPT !.dbFailed = TRUE]
          /\ UNCHANGED <<pending, hist>>
    /\ UNCHANGED <<posts, batch_logs, conn, runs, locals>>

\* Commit as it would be with success_count += 1 placed before conn.commit().
CommitCountingEarly ==
    /\ pc = "commit"
    /\ success_count' = success_count + 1
    /\ \/ /\ posts' = ApplyUpdate(posts, pending[1])
          /\ pending' = <<>>
          /\ obs' = [Advance(obs) EXCEPT !.committed = @ \cup pending[1].ids]
          /\ hist' = [hist EXCEPT !.written = @ \cup pending[1].ids]
          /\ NextRecord
          /\ UNCHANGED exc
       \/ /\ \E e \in StorageErrors : exc' = <<e>>
          /\ pc' = "except_rec"
          /\ obs' = [obs EXCEPT !.dbFailed = TRUE]
          /\ UNCHANGED <<posts, pending, idx, hist, summary,
                         retry_delay, retry_delay_after_retry>>
    /\ UNCHANGED <<batch_logs, conn, runs, rows, total_count, fail_count>>

\* conn.commit(); success_count += 1
Commit ==
    /\ pc = "commit"
    /\ \/ /\ posts' = ApplyUpdate(posts, pending[1])
          /\ pending' = <<>>
          /\ success_count' = success_count + 1
          /\ obs' = [Advance(obs) EXCEPT !.committed = @ \cup pending[1].ids]
          /\ hist' = [hist EXCEPT !.written = @ \cup pending[1].ids]
          /\ NextRecord
          /\ UNCHANGED exc
       \/ /\ \E e \in StorageErrors : exc' = <<e>>
          /\ pc' = "except_rec"
          /\ obs' = [obs EXCEPT !.dbFailed = TRUE]
          /\ UNCHANGED <<posts, pending, success_count, idx, hist, summary,
                         retry_delay, retry_delay_after_retry>>
    /\ UNCHANGED <<batch_logs, conn, runs, rows, total_count, fail_count>>

\* The per-record handler as it would be without conn.rollback().
ExceptRecordNoRollback ==
    /\ pc = "except_rec"
    /\ fail_count' = fail_count + 1
    /\ exc' = <<>>
    /\ obs' = Advance(obs)
    /\ NextRecord
    /\ UNCHANGED <<posts, batch_logs, pending, conn, runs, rows, total_count,
                   success_count, hist>>

\* except Exception as e: fail_count += 1; conn.rollback(); continue
ExceptRecord ==
    /\ pc = "except_rec"
    /\ fail_count' = fail_count + 1
    /\ \/ /\ pending' = <<>>
          /\ exc' = <<>>
          /\ obs' = Advance(obs)
          /\ NextRecord
       \/ /\ \E e \in StorageErrors : exc' = <<e>>
          /\ pc' = "except_outer"
          /\ UNCHANGED <<pending, idx, obs, summary, retry_delay,
                         retry_delay_after_retry>>
    /\ UNCHANGED <<posts, batch_logs, conn, runs, rows, total_count,
                   success_count, hist>>

\* self._log_batch("SUCCESS", success_count, fail_count, total_count, None)
LogSuccess ==
    /\ pc = "log_success"
    /\ \/ /\ batch_logs' = Append(batch_logs,
                LogRow("SUCCESS", success_count, fail_count, total_count, NoMessage))
          /\ pc' = "finally"
          /\ obs' = [obs EXCEPT !.logCalls = @ + 1, !.logRows = @ + 1,
                                !.exit = "complete"]
          /\ UNCHANGED exc
       \/ /\ \E e \in StorageErrors : exc' = <<e>>
          /\ pc' = "except_outer"
          /\ obs' = [obs EXCEPT !.logCalls = @ + 1]
          /\ UNCHANGED batch_logs
    /\ UNCHANGED <<posts, pending, conn, runs, locals, hist>>

\* except Exception as e: self._log_batch("FAILED", 0, 0, 0, str(e)[:1000]); raise
ExceptOuter ==
    /\ pc = "except_outer"
    /\ \/ /\ batch_logs' = Append(batch_logs,
                LogRow("FAILED", 0, 0, 0, Truncate(exc[1], ErrorMessageLimit)))
          /\ obs' = [obs EXCEPT !.logCalls = @ + 1, !.logRows = @ + 1,
                                !.raised = TRUE, !.exit = "failed"]
       \/ /\ obs' = [obs EXCEPT !.logCalls = @ + 1, !.raised = TRUE,
                                !.exit = "failed"]
          /\ UNCHANGED batch_logs
    /\ exc' = <<>>
    /\ pc' = "finally"
    /\ UNCHANGED <<posts, pending, conn, runs, locals, hist>>

\* finally: cur.close(); conn.close()
Finally ==
    /\ pc = "finally"
    /\ conn' = "closed"
    /\ pending' = <<>>
    /\ pc' = "done"
    /\ obs' = [obs EXCEPT !.closes = @ + 1]
    /\ hist' = [hist EXCEPT !.clean =
                  /\ success_count = total_count
                  /\ total_count > 0 \/ obs.exit = "empty"]
    /\ UNCHANGED <<posts, batch_logs, runs, locals, exc>>

SelectableContents ==
    { c \in ContentValues : c # None /\ c # <<>> /\ SqlTrim(c) # <<>> }

\* A concurrent external writer fills the missing summary of a post the
\* selection would return.
ExternalWrite ==
    /\ hist.external < MaxExternalWrites
    /\ \E r \in PostIds :
         /\ posts[r].summary = None
         /\ posts[r].content \in SelectableContents
         /\ \A i \in 1..Len(pending) : r \notin pending[i].ids
         /\ posts' = [posts EXCEPT ![r].summary = ExternalSummary]
    /\ obs' = [obs EXCEPT !.extWrite = TRUE]
    /\ hist' = [hist EXCEPT !.external = @ + 1]
    /\ UNCHANGED <<batch_logs, pending, conn, pc, runs, locals, exc>>

Next ==
    \/ StartRun
    \/ Connect
    \/ Select
    \/ CheckRecord
    \/ FirstCall
    \/ Cooldown
    \/ RetryCall
    \/ CountFailure
    \/ Update
    \/ Commit
    \/ ExceptRecord
    \/ LogSuccess
    \/ ExceptOuter
    \/ Finally
    \/ ExternalWrite

Spec == Init /\ [][Next]_vars

\* run() is sequential code: once called, its next statement is executed.
\* Starting a run and the external writer are the environment's choice.
RunStep ==
    \/ Connect \/ Select \/ CheckRecord \/ FirstCall \/ Cooldown \/ RetryCall
    \/ CountFailure \/ Update \/ Commit \/ ExceptRecord \/ LogSuccess
    \/ ExceptOuter \/ Finally

\* One call of run() from the initial store, with the external writer.
FirstRun == pc = "idle" /\ StartRun

RunNext == FirstRun \/ RunStep \/ ExternalWrite

RunSpec == Init /\ [][RunNext]_vars /\ WF_vars(RunStep)

\* _gemini_summarize on its own: one call on an input drawn at the start.
SummarizeInit ==
    /\ posts = [r \in PostIds |-> [content |-> None, summary |-> None]]
    /\ batch_logs = <<>>
    /\ pending = <<>>
    /\ conn = "none"
    /\ pc = "summarize"
    /\ runs = 0
    /\ rows = <<>>
    /\ total_count = 0
    /\ success_count = 0
    /\ fail_count = 0
    /\ idx = 0
    /\ summary = None
    /\ retry_delay = NoDelay
    /\ retry_delay_after_retry = NoDelay
    /\ exc = <<>>
    /\ obs \in { [FreshObs EXCEPT !.outcome = o] : o \in SummarizeInputs }
    /\ hist = [written |-> {}, issued |-> {}, reissued |-> FALSE,
               clean |-> FALSE, external |-> 0]

\* return (summary, None) / (None, retry_delay) / (None, None)
Summarize ==
    /\ pc = "summarize"
    /\ LET res == gemini_summarize(obs.outcome)
       IN  summary' = res.summary /\ retry_delay' = res.retry_delay
    /\ pc' = "returned"
    /\ UNCHANGED <<posts, batch_logs, pending, conn, runs, rows, total_count,
                   success_count, fail_count, idx, retry_delay_after_retry,
                   exc, obs, hist>>

SummarizeNext == Summarize

SummarizeSpec == SummarizeInit /\ [][SummarizeNext]_vars

\* ------------------------------------------------------------------ claims
InRecord == pc \in {"check", "call1", "sleep", "call2", "apply", "commit", "except_rec"}

Counted == success_count + fail_count

\* C1: success_count + fail_count <= total_count in every reachable state; the
\* counters never exceed the number of candidates the loop has finished with,
\* and every increment is by one, of one counter, and ends that candidate
\* (the loop moves on or the run aborts), so no candidate is counted twice.
C1_CountInv ==
    /\ Counted <= total_count
    /\ Counted <= idx
    /\ InRecord => Counted <= idx - 1

C1_CountStep ==
    (pc' # "connect" /\ (success_count' # success_count \/ fail_count' # fail_count))
        => /\ InRecord
           /\ \/ success_count' = success_count + 1 /\ fail_count' = fail_count
              \/ fail_count' = fail_count + 1 /\ success_count' = success_count
           /\ \/ idx' = idx + 1 /\ pc' \in {"check", "log_success"}
              \/ pc' = "except_outer"

C1_Counters == [](C1_CountInv) /\ [][C1_CountStep]_vars

C1_Witness ==
    /\ pc = "done"
    /\ obs.exit = "complete"
    /\ success_count = 1
    /\ fail_count = 1
    /\ total_count = 2

LastLog == batch_logs[Len(batch_logs)]

\* C2: every run() that ends has invoked _log_batch exactly once.
C2_LoggedOnce == pc = "done" => obs.logCalls = 1

\* C3: when the first call and its retry both report a quota failure, run()
\* has written one SUCCESS row with the counts accumulated so far by the time
\* it returns.
C3_QuotaExitLogged ==
    (pc = "done" /\ obs.exit = "quota")
        => /\ obs.logRows = 1
           /\ Len(batch_logs) > 0
           /\ LastLog.status = "SUCCESS"
           /\ LastLog.detail = [success_count |-> success_count,
                                fail_count |-> fail_count,
                                total_count |-> total_count]

\* C4: a quota failure on the first call leads to one 120 s cooldown and one
\* retry; a quota failure on the retry ends the run without raising, with the
\* current candidate counted neither way and not written, and after that no
\* candidate receives a provider call, a counter increment or an UPDATE.
C4_Inv ==
    /\ pc = "sleep" => obs.calls = 1 /\ obs.slept = 0
    /\ pc = "call2" => obs.calls = 1 /\ obs.slept = 120
    /\ obs.exit = "quota" =>
         /\ pc \in {"finally", "done"}
         /\ summary = None /\ retry_delay # NoDelay /\ retry_delay_after_retry # NoDelay
         /\ obs.calls = 2 /\ obs.slept = 120
         /\ ~obs.raised
         /\ obs.lastCalled = idx /\ obs.lastUpdated < idx
         /\ Counted <= idx - 1
         /\ cur \notin hist.written
         /\ pending = <<>>

C4_Step ==
    /\ (pc = "call1" /\ pc' # pc /\ summary' = None /\ retry_delay' # NoDelay)
          => pc' = "sleep"
    /\ (pc = "call2" /\ pc' # pc /\ summary' = None /\ retry_delay_after_retry' # NoDelay)
          => /\ pc' = "finally" /\ obs'.exit = "quota"
             /\ UNCHANGED <<success_count, fail_count, posts, pending>>
    /\ (obs.exit = "quota" /\ pc' # "connect")
          => /\ UNCHANGED <<success_count, fail_count, idx>>
             /\ hist'.written = hist.written /\ hist'.issued = hist.issued
             /\ obs'.calls = obs.calls /\ obs'.lastCalled = obs.lastCalled
             /\ obs'.lastUpdated = obs.lastUpdated /\ obs'.raised = obs.raised

C4_SustainedQuota == [](C4_Inv) /\ [][C4_Step]_vars

C4_Witness ==
    /\ pc = "done"
    /\ obs.exit = "quota"
    /\ total_count = 2
    /\ idx = 1
    /\ \A r \in PostIds : posts[r].summary = None

\* C5: when the single retry returns a summary and the UPDATE and the commit
\* go through, the post carries the retry's text, success_count grows by one,
\* fail_count is unchanged and the loop moves on to the next candidate.
C5_Step ==
    /\ (pc = "call2" /\ pc' # pc /\ obs'.outcome.kind = "text")
          => /\ pc' = "apply"
             /\ summary' = obs'.text
             /\ obs'.text = PyStrip(obs'.outcome.text)
    /\ (pc = "apply" /\ obs.calls = 2 /\ obs.outcome.kind = "text"
            /\ pc' \notin {"apply", "except_rec"})
          => /\ pc' = "commit"
             /\ pending' = <<[ids |-> {cur}, summary |-> obs.text]>>
             /\ UNCHANGED <<obs.text, obs.outcome, posts, success_count, fail_count>>
    /\ (pc = "commit" /\ obs.calls = 2 /\ pc' \notin {"commit", "except_rec"})
          => /\ posts'[cur].summary = obs.text
             /\ obs.text = PyStrip(obs.outcome.text)
             /\ \A r \in PostIds \ {cur} : posts'[r] = posts[r]
             /\ pending' = <<>>
             /\ success_count' = success_count + 1
             /\ fail_count' = fail_count
             /\ idx' = idx + 1
             /\ pc' \in {"check", "log_success"}

C5_RetrySucceeds == [][C5_Step]_vars

C5_Witness ==
    /\ pc = "check"
    /\ idx = 2
    /\ obs.lastCalled = 1 /\ obs.calls = 2 /\ obs.slept = 120
    /\ success_count = 1 /\ fail_count = 0
    /\ posts[rows[1].post_id].summary = <<"b">>

\* C6: a non-retryable failure on the first call (no summary, no delay; this
\* is what a provider exception without quota wording gives) leads to no
\* cooldown and no retry; fail_count grows by exactly one, nothing is written
\* for the post and the loop moves on to the next candidate.
NonQuotaErrors == { <<"500", "internal">> }

C6_Inv ==
    /\ (obs.outcome.kind = "error" /\ obs.outcome.text \in NonQuotaErrors /\ obs.calls = 1)
          => pc = "apply" /\ summary = None /\ retry_delay = NoDelay
    /\ (pc = "apply" /\ obs.calls = 1) => obs.slept = 0 /\ pending = <<>>

C6_Step ==
    /\ (pc = "call1" /\ pc' # pc /\ summary' = None /\ retry_delay' = NoDelay)
          => pc' = "apply" /\ obs'.calls = 1 /\ obs'.slept = 0
    /\ (pc = "apply" /\ obs.calls = 1 /\ summary = None /\ pc' # pc)
          => /\ fail_count' = fail_count + 1
             /\ success_count' = success_count
             /\ UNCHANGED <<posts, pending, hist>>
             /\ obs'.calls = 1 /\ obs'.slept = 0
             /\ idx' = idx + 1
             /\ pc' \in {"check", "log_success"}

C6_NonRetryable == [](C6_Inv) /\ [][C6_Step]_vars

C6_Witness ==
    /\ pc = "check"
    /\ idx = 2
    /\ obs.lastCalled = 1 /\ obs.calls = 1 /\ obs.slept = 0
    /\ ~obs.dbFailed
    /\ fail_count = 1 /\ success_count = 0
    /\ posts[rows[1].post_id].summary = None

\* C7: with N >= 1 eligible posts (no summary, content not blank) at
\* selection, a provider that answers every call with a text, a store that
\* fails nowhere and no concurrent writer, run() ends with
\* success_count = N, fail_count = 0, total_count = N, every eligible post
\* summarized, and one SUCCESS row with affected_count = N.
EligibleAtSelect ==
    { r \in obs.nullAtSelect :
        posts[r].content # None /\ PyStrip(posts[r].content) # <<>> }

QuietRun ==
    /\ ~obs.provFailed /\ ~obs.dbFailed /\ ~obs.extWrite
    /\ obs.logCalls = obs.logRows
    /\ obs.exit \notin {"connect_error", "failed"}

C7_AllSummarized ==
    (pc = "done" /\ QuietRun /\ Cardinality(EligibleAtSelect) >= 1)
        => LET N == Cardinality(EligibleAtSelect)
           IN  /\ success_count = N
               /\ fail_count = 0
               /\ total_count = N
               /\ \A r \in EligibleAtSelect :
                    posts[r].summary \in { PyStrip(t) : t \in ProviderTexts }
               /\ obs.logRows = 1
               /\ Len(batch_logs) > 0
               /\ LastLog.status = "SUCCESS"
               /\ LastLog.affected_count = N

\* C8: after a run that selected its candidates and summarized every one of
\* them successfully (hist.clean), the next run selects no candidate, calls
\* the provider for none and issues no UPDATE.
C8_Inv ==
    (hist.clean /\ pc \notin {"idle", "done"})
        => /\ pc \in {"connect", "select", "except_outer", "finally"}
           /\ rows = <<>> /\ total_count = 0
           /\ obs.lastCalled = 0 /\ obs.lastUpdated = 0
           /\ pending = <<>>

C8_Step ==
    (hist.clean /\ pc \notin {"idle", "done"})
        => hist'.written = hist.written /\ hist'.issued = hist.issued

C8_SecondRunIdle == [](C8_Inv) /\ [][C8_Step]_vars

C8_Witness ==
    /\ runs = 2
    /\ hist.clean
    /\ pc = "finally"
    /\ obs.exit = "empty"
    /\ hist.written # {}

\* C9 as stated: the job issues at most one summary UPDATE per post (no
\* UPDATE touches a post an earlier UPDATE of the job has touched), and only
\* sends to the provider posts whose summary was null at selection.
SentToProvider == pc \in {"call1", "sleep", "call2", "apply", "commit"}

IssuedNow == IF pending # pending' /\ pending' # <<>> THEN pending'[1].ids ELSE {}

CommittedNow == IF pc = "commit" /\ pending' = <<>> THEN pending[1].ids ELSE {}

C9_OneUpdateIssued ==
    /\ ~hist.reissued
    /\ SentToProvider => cur \in obs.nullAtSelect

\* C9 as amended: over any sequence of runs the job commits at most one
\* summary UPDATE per post (an UPDATE that was rolled back may be issued again
\* by a later run), never touches a post whose summary it has committed, and
\* only sends to the provider posts whose summary was null at selection.
C9_Inv ==
    /\ \A i \in 1..Len(pending) : pending[i].ids \cap hist.written = {}
    /\ SentToProvider => cur \in obs.nullAtSelect /\ cur \notin hist.written

C9_Step ==
    /\ CommittedNow \cap hist.written = {}
    /\ IssuedNow \cap hist.written = {}
    /\ \A r \in hist.written : posts'[r] = posts[r]

C9_WriteOnce == [](C9_Inv) /\ [][C9_Step]_vars

C9_Witness ==
    /\ pc = "done"
    /\ runs = 2
    /\ hist.reissued
    /\ obs.lastUpdated = 1
    /\ success_count = 1
    /\ rows[1].post_id \in hist.written

\* C10: a run in which a statement of one record raised (re-check, UPDATE or
\* commit) still does not raise and ends with a SUCCESS row.
C10_RecordErrorAbsorbed ==
    (pc = "done" /\ obs.dbFailed)
        => /\ ~obs.raised
           /\ obs.logRows = 1
           /\ Len(batch_logs) > 0
           /\ LastLog.status = "SUCCESS"

\* C11: a run that raised did so for an exception outside the per-record
\* loop, wrote exactly one FAILED row carrying the error message, and
\* modified no record.
C11_FailedRunLogged ==
    (pc = "done" /\ obs.raised)
        => /\ ~obs.dbFailed
           /\ obs.logRows = 1
           /\ Len(batch_logs) = 1
           /\ LastLog.status = "FAILED"
           /\ LastLog.error_message \in
                { Truncate(e, ErrorMessageLimit) : e \in StorageErrors }
           /\ obs.committed = {}

\* C12: the candidate list of a run is exactly the posts that had no summary
\* at selection and whose content is present and not blank once trimmed, in
\* ascending post_id order; selecting changes no post, an empty list ends the
\* run without an error, and the loop walks the list in order, so the
\* candidates touched so far are a prefix of it.
NonBlank(content) ==
    content # None /\ \E i \in 1..Len(content) : content[i] \notin Whitespace

Selected == pc \in {"check", "call1", "sleep", "call2", "apply", "commit",
                    "except_rec", "log_success"} \/ obs.exit \in {"empty", "quota"}

C12_Inv ==
    /\ Selected =>
         /\ { rows[i].post_id : i \in 1..Len(rows) }
              = { r \in obs.nullAtSelect : NonBlank(posts[r].content) }
         /\ \A i \in 1..Len(rows) : rows[i].content = posts[rows[i].post_id].content
         /\ \A i, j \in 1..Len(rows) : i < j => rows[i].post_id < rows[j].post_id
         /\ total_count = Len(rows)
    /\ obs.exit = "empty" => ~obs.raised /\ exc = <<>> /\ Len(rows) = 0
    /\ InRecord => idx \in 1..Len(rows) /\ obs.lastCalled <= idx /\ obs.lastUpdated <= idx

C12_Step ==
    /\ pc = "select" /\ pc' # pc => posts' = posts /\ pending' = pending
    /\ InRecord /\ pc' \in {"check", "log_success"} /\ idx' # idx => idx' = idx + 1
    /\ InRecord => IssuedNow \subseteq {cur} /\ CommittedNow \subseteq {cur}

C12_CandidateSet == [](C12_Inv) /\ [][C12_Step]_vars

\* C13: whatever an external writer does after the selection, no step of the
\* job changes a summary that is non-null when the step is taken, and no
\* commit counts a candidate whose summary was already filled.
C13_Step ==
    /\ \A r \in PostIds :
         posts[r].summary # None => posts'[r].summary = posts[r].summary
    /\ pc = "commit" /\ posts[cur].summary # None
         => success_count' = success_count /\ fail_count' = fail_count

C13_NoOverwrite == [][C13_Step]_vars

\* C14: every UPDATE touches one row and is committed before the loop moves
\* on, and success_count is incremented only by that commit: success_count
\* is always the number of posts whose summary this run has committed, no
\* UPDATE is pending when a candidate starts or the loop has ended, and
\* whatever happens later in the run the committed summaries stay stored.
C14_Inv ==
    /\ success_count = Cardinality(obs.committed)
    /\ pc \in {"check", "call1", "sleep", "call2", "apply", "log_success"}
         => pending = <<>>
    /\ pending # <<>> => Cardinality(pending[1].ids) = 1
    /\ \A r \in obs.committed : posts[r].summary # None

C14_Step ==
    /\ success_count' = success_count + 1
         => /\ pc = "commit" /\ pending' = <<>>
            /\ posts'[cur].summary = pending[1].summary
            /\ pc' \in {"check", "log_success"}
    /\ \A r \in obs.committed \cap obs'.committed :
         posts'[r].summary = posts[r].summary

C14_CommittedCount == [](C14_Inv) /\ [][C14_Step]_vars

C14_Witness ==
    /\ pc = "done" /\ obs.exit \in {"quota", "failed"}
    /\ success_count = 1
    /\ \E r \in obs.committed : posts[r].summary \in { PyStrip(t) : t \in ProviderTexts }

\* C15: a candidate whose content is blank, or whose re-fetched summary is no
\* longer null, is skipped: the loop moves to the next candidate with no
\* provider call, no cooldown, no UPDATE, no commit and both counters
\* unchanged.
Skipped ==
    /\ idx' = idx + 1
    /\ pc' \in {"check", "log_success"}
    /\ UNCHANGED <<posts, pending, success_count, fail_count, hist, batch_logs>>
    /\ obs'.lastCalled = obs.lastCalled /\ obs'.lastCalled < idx
    /\ obs'.lastUpdated = obs.lastUpdated /\ obs'.lastUpdated < idx
    /\ obs'.slept = obs.slept /\ obs'.calls = obs.calls
    /\ obs'.committed = obs.committed

C15_Step ==
    /\ pc = "check" /\ (pc' # pc \/ idx' # idx) /\ ~NonBlank(rows[idx].content)
         => Skipped
    /\ pc = "check" /\ (pc' # pc \/ idx' # idx) /\ posts[cur].summary # None
          /\ pc' # "except_rec"
         => Skipped

C15_SkipIneligible == [][C15_Step]_vars

C15_Witness ==
    /\ pc = "log_success" /\ Len(rows) = 2
    /\ ~NonBlank(rows[1].content)
    /\ posts[rows[2].post_id].summary = ExternalSummary
    /\ ~obs.dbFailed /\ obs.lastCalled = 0 /\ Counted = 0

\* C16: whatever the provider answers, a started run() ends; the loop index
\* only moves forward by one, so each candidate is visited at most once; a
\* candidate gets at most two provider calls and at most one 120 s cooldown;
\* a quota failure of the retry ends the run, it is never followed by
\* another cooldown or call for that candidate.
C16_Inv ==
    /\ obs.calls \in 0..2
    /\ obs.slept \in {0, CooldownSeconds}
    /\ pc \in {"call2", "sleep"} => obs.calls = 1
    /\ InRecord => idx \in 1..Len(rows)

C16_Step ==
    /\ InRecord => idx' \in {idx, idx + 1}
    /\ InRecord /\ idx' = idx + 1 => pc' \in {"check", "log_success"}
    /\ pc = "call1" /\ pc' # pc => obs'.calls = 1 /\ obs'.slept = 0
    /\ pc = "sleep" /\ pc' # pc => pc' = "call2" /\ obs.slept = 0
    /\ pc = "call2" /\ pc' # pc
         => /\ pc' \in {"apply", "finally"}
            /\ obs'.outcome.kind = "error" /\ obs'.outcome.text \notin NonQuotaErrors
                 => pc' = "finally" /\ obs'.exit = "quota"
    /\ pc \in {"apply", "commit", "except_rec"} /\ pc' # pc
         => pc' \notin {"call1", "sleep", "call2"} /\ (pc' = "check" => idx' = idx + 1)

C16_Terminates == (pc = "connect") ~> (pc = "done")

C16_RunTerminates == [](C16_Inv) /\ [][C16_Step]_vars /\ C16_Terminates

C16_Witness ==
    /\ pc = "done" /\ obs.exit = "complete"
    /\ Len(rows) = 2 /\ success_count = 1 /\ fail_count = 1
    /\ obs.provFailed /\ ~obs.dbFailed

\* C17: _gemini_summarize returns (summary, no delay) when the provider
\* answers with a text, (no summary, a delay in seconds) when the provider's
\* error text contains "429", or in any letter case "quota" or "rate limit",
\* and (no summary, no delay) for every other error; never a summary together
\* with a delay.
QuotaText(e) ==
    \E i \in 1..Len(e) :
        \/ e[i] \in {"429", "quota", "Quota"}
        \/ i < Len(e) /\ e[i] \in {"rate", "Rate"} /\ e[i + 1] \in {"limit", "Limit"}

C17_ThreeShapes ==
    pc = "returned" =>
        /\ obs.outcome.kind = "text"
             => summary # None /\ retry_delay = NoDelay
        /\ obs.outcome.kind = "error" /\ QuotaText(obs.outcome.text)
             => summary = None /\ retry_delay \in Nat /\ retry_delay > 0
        /\ obs.outcome.kind = "error" /\ ~QuotaText(obs.outcome.text)
             => summary = None /\ retry_delay = NoDelay
        /\ ~(summary # None /\ retry_delay # NoDelay)

C17_Witness ==
    /\ pc = "returned"
    /\ obs.outcome = [kind |-> "error", text |-> <<"Quota", "Retry", "in", "5s">>]
    /\ summary = None /\ retry_delay = 6

\* C18: _log_batch works on a connection of its own: whether its insert
\* succeeds or raises, the step leaves the posts, the work connection and its
\* open transaction as they were and appends at most one row; every row has
\* log_level ERROR exactly when its status is FAILED and INFO otherwise, and
\* its affected_count is the success_count passed to _log_batch.
C18_Inv ==
    \A i \in 1..Len(batch_logs) :
        LET row == batch_logs[i]
        IN  /\ row.status \in {"SUCCESS", "FAILED"}
            /\ row.status = "FAILED" => row.log_level = "ERROR" /\ row.affected_count = 0
            /\ row.status # "FAILED"
                 => row.log_level = "INFO" /\ row.affected_count = success_count
            /\ row.affected_count = row.detail.success_count

C18_Step ==
    pc \in {"log_success", "except_outer"} /\ pc' # pc
        => /\ posts' = posts /\ pending' = pending /\ conn' = conn
           /\ obs'.committed = obs.committed
           /\ obs'.logCalls = obs.logCalls + 1
           /\ \/ batch_logs' = batch_logs
              \/ /\ Len(batch_logs') = Len(batch_logs) + 1
                 /\ SubSeq(batch_logs', 1, Len(batch_logs)) = batch_logs

C18_AuditIndependent == [](C18_Inv) /\ [][C18_Step]_vars

C18_Witness ==
    /\ pc = "done" /\ obs.logCalls = 2 /\ obs.logRows = 1
    /\ LastLog.status = "FAILED" /\ LastLog.log_level = "ERROR"
    /\ success_count = 1 /\ total_count = 2
    /\ \A r \in obs.committed : posts[r].summary # None

\* C19: a FAILED row exists only in a run that has committed no summary, so
\* the success count 0 it reports is what the run committed.
C19_FailedCountsAgree ==
    \A i \in 1..Len(batch_logs) :
        batch_logs[i].status = "FAILED"
            => /\ obs.committed = {}
               /\ batch_logs[i].detail.success_count = success_count
               /\ batch_logs[i].affected_count = Cardinality(obs.committed)

\* C20: every run that obtained the work connection ends with the cursor and
\* the connection closed exactly once, whichever way it ends (no candidate,
\* quota exit, completion, exception re-raised), and no UPDATE is
\* uncommitted on the connection at the moment it is closed.
C20_ClosedClean ==
    /\ pc = "finally" => conn = "open" /\ obs.closes = 0 /\ pending = <<>>
    /\ pc = "done" /\ obs.exit # "connect_error"
         => /\ conn = "closed" /\ obs.closes = 1
            /\ obs.exit \in {"empty", "quota", "complete", "failed"}

====
